---- MODULE Spec2Model ----
(***************************************************************************)
(* Model of colmap/estimators/generalized_pose.cc: the helpers             *)
(* ThrowCheckCameras, IsPanoramicRig, LowerVector3d and                    *)
(* ComputeUniquePointIds, and the three entry points                       *)
(* EstimateGeneralizedAbsolutePose, EstimateGeneralizedRelativePose and    *)
(* RefineGeneralizedAbsolutePose.                                          *)
(*                                                                         *)
(* Vectors are triples of integers.  C++ indices are 0-based; a C++        *)
(* vector v is a TLA+ sequence whose element v[i] is At(v, i).             *)
(***************************************************************************)
EXTENDS Integers, Sequences, FiniteSets

VARIABLES
  points3D,            \* ComputeUniquePointIds: the input points
  point3D_ids,         \* ComputeUniquePointIds: the index vector after std::sort
  unique_point3D_ids,  \* ComputeUniquePointIds: the returned ids
  prev_ids,            \* ids returned for the same points in the previous input order
  ipc,                 \* "idle" | "done"
  pano,                \* IsPanoramicRig: the arguments and result of the last call
  est,                 \* Estimate*: the arguments and outcome of the call in progress
  rig_from_world,      \* caller's output object (absolute pose)
  rig2_from_rig1,      \* caller's output object, std::optional<Rigid3d>
  pano2_from_pano1,    \* caller's output object, std::optional<Rigid3d>
  num_inliers,         \* caller's output object
  inlier_mask,         \* caller's output object
  caller,              \* RefineGeneralizedAbsolutePose: the caller's storage
  ref                  \* RefineGeneralizedAbsolutePose: arguments, problem, outcome

idVars == <<points3D, point3D_ids, unique_point3D_ids, prev_ids, ipc>>

panoVars == <<pano>>

outVars == <<rig_from_world, rig2_from_rig1, pano2_from_pano1, num_inliers, inlier_mask>>

estVars == <<est, outVars>>

refVars == <<caller, ref>>

vars == <<idVars, panoVars, estVars, refVars>>

exceptIds == <<panoVars, estVars, refVars>>

exceptPano == <<idVars, estVars, refVars>>

exceptEst == <<idVars, panoVars, refVars>>

exceptRef == <<idVars, panoVars, estVars>>

----------------------------------------------------------------------------
(* Bounds of the model *)

MaxCoord == 3
MaxPoints == 3
MaxCameras == 3
MaxIdxs == 3
MaxCorr == 2
MaxRigCameras == 2

----------------------------------------------------------------------------
(* Generic helpers *)

At(v, i) == v[i + 1]

Range(s) == {s[i] : i \in 1..Len(s)}

SetMin(S) == CHOOSE m \in S : \A o \in S : m <= o

SetMax(S) == CHOOSE m \in S : \A o \in S : o <= m

MinOf(a, b) == IF a <= b THEN a ELSE b

SeqsUpTo(S, n) == UNION {[1..k -> S] : k \in 0..n}

Perms(n) == {p \in [1..n -> 1..n] : \A i, j \in 1..n : i # j => p[i] # p[j]}

----------------------------------------------------------------------------
(* Eigen vector arithmetic *)

SquaredNorm(v) == v[1] * v[1] + v[2] * v[2] + v[3] * v[3]

Minus(v, w) == <<v[1] - w[1], v[2] - w[2], v[3] - w[3]>>

Neg(v) == <<0 - v[1], 0 - v[2], 0 - v[3]>>

\* The precisions passed to isApprox, as inverses.  The source passes 1e-6
\* (IsPanoramicRig) and 1e-5 (ComputeUniquePointIds); on the integer grid of
\* the model both are scaled to 1/2, so that two distinct grid points can be
\* approximately equal.
PanoPrecInv == 2

PointPrecInv == 2

\* Eigen's v.isApprox(w, p): ||v - w||^2 <= p^2 * min(||v||^2, ||w||^2),
\* with p = 1 / precInv.
IsApprox(v, w, precInv) ==
  SquaredNorm(Minus(v, w)) * precInv * precInv
    <= MinOf(SquaredNorm(v), SquaredNorm(w))

----------------------------------------------------------------------------
(* LowerVector3d and ComputeUniquePointIds *)

LowerVector3d(v1, v2) ==
  IF v1[1] < v2[1] THEN TRUE
  ELSE IF v1[1] = v2[1]
       THEN IF v1[2] < v2[2] THEN TRUE
            ELSE IF v1[2] = v2[2] THEN v1[3] < v2[3]
            ELSE FALSE
       ELSE FALSE

\* A mutant of SortedOrders: the index vector is left in input order.
SortedOrdersUnsorted(pts) == {[i \in 1..Len(pts) |-> i - 1]}

\* The possible results of std::sort on the iota vector of indices under the
\* comparator LowerVector3d: every arrangement of 0..N-1 in which no later
\* index is lower than an earlier one (the order of equivalent elements is
\* unspecified).
SortedOrders(pts) ==
  {[i \in 1..Len(pts) |-> p[i] - 1] : p \in
     {q \in Perms(Len(pts)) :
        \A i, j \in 1..Len(pts) : i < j => ~LowerVector3d(pts[q[j]], pts[q[i]])}}

\* A mutant of UniqueWalk: the representative follows the previous point of
\* the walk (chained merging).
RECURSIVE UniqueWalkChained(_, _, _, _, _)
UniqueWalkChained(pts, ids, unique_it, current_it, out) ==
  IF current_it >= Len(ids) THEN out
  ELSE LET prev == IF current_it = 0 THEN 0 ELSE current_it - 1
           u == IF ~IsApprox(At(pts, At(ids, prev)), At(pts, At(ids, current_it)),
                             PointPrecInv)
                THEN current_it ELSE unique_it
       IN UniqueWalkChained(pts, ids, u, current_it + 1,
                            [out EXCEPT ![At(ids, current_it) + 1] = u])

\* The while loop of ComputeUniquePointIds: unique_it and current_it are the
\* offsets of the two iterators from point3D_ids.begin().
RECURSIVE UniqueWalk(_, _, _, _, _)
UniqueWalk(pts, ids, unique_it, current_it, out) ==
  IF current_it >= Len(ids) THEN out
  ELSE LET u == IF ~IsApprox(At(pts, At(ids, unique_it)),
                             At(pts, At(ids, current_it)), PointPrecInv)
                THEN current_it ELSE unique_it
       IN UniqueWalk(pts, ids, u, current_it + 1,
                     [out EXCEPT ![At(ids, current_it) + 1] = u])

\* ComputeUniquePointIds given the outcome of the sort.
ComputeUniquePointIds(pts, ids) ==
  UniqueWalk(pts, ids, 0, 0, [i \in 1..Len(pts) |-> 0])

----------------------------------------------------------------------------
(* Rigid3d and IsPanoramicRig *)

\* Rotations are 3x3 integer matrices (tuples of rows).
RotIdentity == <<(<<1, 0, 0>>), (<<0, 1, 0>>), (<<0, 0, 1>>)>>

RotZ180 == <<(<<-1, 0, 0>>), (<<0, -1, 0>>), (<<0, 0, 1>>)>>

\* rotation.inverse(): the transpose of a rotation matrix.
RotInverse(R) ==
  <<(<<R[1][1], R[2][1], R[3][1]>>),
    (<<R[1][2], R[2][2], R[3][2]>>),
    (<<R[1][3], R[2][3], R[3][3]>>)>>

RotApply(R, v) ==
  <<R[1][1] * v[1] + R[1][2] * v[2] + R[1][3] * v[3],
    R[2][1] * v[1] + R[2][2] * v[2] + R[2][3] * v[3],
    R[3][1] * v[1] + R[3][2] * v[2] + R[3][3] * v[3]>>

Rigid3d(R, t) == [rotation |-> R, translation |-> t]

\* cam_from_rig.rotation.inverse() * -cam_from_rig.translation
OriginInRig(cam_from_rig) ==
  RotApply(RotInverse(cam_from_rig.rotation), Neg(cam_from_rig.translation))

\* A mutant of IsPanoramicRig: every camera of the rig is compared, not only
\* the referenced ones.
IsPanoramicRigWholeRig(camera_idxs, cams_from_rig) ==
  \A i \in 0..(Len(cams_from_rig) - 1) :
    IsApprox(OriginInRig(At(cams_from_rig, 0)), OriginInRig(At(cams_from_rig, i)),
             PanoPrecInv)

\* IsPanoramicRig for a non-empty camera_idxs (on an empty one the function
\* dereferences begin() of an empty set; the callers model that case).
IsPanoramicRig(camera_idxs, cams_from_rig) ==
  LET camera_idx_set == Range(camera_idxs)
      first_camera_idx == SetMin(camera_idx_set)
      first_origin_in_rig == OriginInRig(At(cams_from_rig, first_camera_idx))
  IN \A it \in camera_idx_set \ {first_camera_idx} :
       IsApprox(first_origin_in_rig, OriginInRig(At(cams_from_rig, it)), PanoPrecInv)

----------------------------------------------------------------------------
(* Specification SpecIds: ComputeUniquePointIds applied to bounded inputs *)

GridPoints ==
  {<<x, yz[1], yz[2]>> : x \in 0..MaxCoord, yz \in {<<0, 0>>, <<0, 1>>, <<1, 0>>}}

NoIds == <<-1>>

IdleIds ==
  /\ points3D = <<>>
  /\ point3D_ids = <<>>
  /\ unique_point3D_ids = NoIds
  /\ prev_ids = NoIds
  /\ ipc = "idle"

IdlePano == pano = [pc |-> "none"]

Uninit == "uninitialized"

NullOpt == "nullopt"

\* Output objects as the caller declares them.
FreshOutputs ==
  /\ rig_from_world = Uninit
  /\ rig2_from_rig1 = NullOpt
  /\ pano2_from_pano1 = NullOpt
  /\ num_inliers = Uninit
  /\ inlier_mask = Uninit

IdleEst == est = [pc |-> "idle"] /\ FreshOutputs

IdleRef == caller = [cameras |-> <<>>] /\ ref = [pc |-> "none"]

InitIds ==
  /\ points3D \in SeqsUpTo(GridPoints, MaxPoints)
  /\ point3D_ids = <<>>
  /\ unique_point3D_ids = NoIds
  /\ prev_ids = NoIds
  /\ ipc = "idle"
  /\ IdlePano
  /\ IdleEst
  /\ IdleRef

CallComputeUniquePointIds ==
  /\ ipc = "idle"
  /\ \E ids \in SortedOrders(points3D) :
       /\ point3D_ids' = ids
       /\ unique_point3D_ids' = ComputeUniquePointIds(points3D, ids)
  /\ ipc' = "done"
  /\ UNCHANGED <<points3D, prev_ids>>
  /\ UNCHANGED exceptIds

\* The caller passes the same points again in another order (two neighbours
\* exchanged); prev_ids keeps the ids the points had, in the new order.
ReorderPoints ==
  /\ ipc = "done"
  /\ \E i, j \in 1..Len(points3D) :
       /\ j = i + 1
       /\ LET sw == [k \in 1..Len(points3D) |->
                       IF k = i THEN j ELSE IF k = j THEN i ELSE k]
          IN /\ points3D' = [k \in 1..Len(points3D) |-> points3D[sw[k]]]
             /\ prev_ids' = [k \in 1..Len(points3D) |-> unique_point3D_ids[sw[k]]]
  /\ point3D_ids' = <<>>
  /\ unique_point3D_ids' = NoIds
  /\ ipc' = "idle"
  /\ UNCHANGED exceptIds

NextIds == CallComputeUniquePointIds \/ ReorderPoints

SpecIds == InitIds /\ [][NextIds]_vars

\* The point at position k of the sorted order, and the id it received.
SortedPoint(k) == At(points3D, At(point3D_ids, k))

SortedId(k) == At(unique_point3D_ids, At(point3D_ids, k))

SameGrouping(a, b) ==
  /\ Len(a) = Len(b)
  /\ \A i, j \in 1..Len(a) : (a[i] = a[j]) <=> (b[i] = b[j])

\* C6 as stated (chained merging): in the sorted order, a run of points each
\* within the tolerance of the point before it receives one id.
C6_ChainedMerging ==
  ipc = "done" =>
    \A a, b \in 0..(Len(points3D) - 1) :
      (a < b /\ \A k \in a..(b - 1) :
                  IsApprox(SortedPoint(k), SortedPoint(k + 1), PointPrecInv))
        => SortedId(a) = SortedId(b)

\* C6 amended: merging is by representative, not by chain.  The id of the
\* point at sorted position k is the sorted position r <= k of its
\* representative; every point from r to k has that id and is within the
\* tolerance of the representative itself; and the representative is the
\* first point (r = 0) or a point that is not within the tolerance of the
\* representative before it, whether or not it is within the tolerance of
\* the point before it.
C6_RepresentativeMerging ==
  ipc = "done" =>
    \A k \in 0..(Len(points3D) - 1) :
      LET r == SortedId(k)
      IN /\ r \in 0..k
         /\ \A m \in r..k :
              /\ SortedId(m) = r
              /\ IsApprox(SortedPoint(r), SortedPoint(m), PointPrecInv)
         /\ r > 0 => ~IsApprox(SortedPoint(SortedId(r - 1)), SortedPoint(r),
                               PointPrecInv)

\* A run of three points, each within the tolerance of the one before it,
\* whose ends are not within the tolerance of each other: the last point got
\* an id of its own.
C6_Witness ==
  /\ ipc = "done"
  /\ Len(points3D) = 3
  /\ IsApprox(SortedPoint(0), SortedPoint(1), PointPrecInv)
  /\ IsApprox(SortedPoint(1), SortedPoint(2), PointPrecInv)
  /\ ~IsApprox(SortedPoint(0), SortedPoint(2), PointPrecInv)
  /\ SortedId(0) = 0
  /\ SortedId(1) = 0
  /\ SortedId(2) = 2

\* C7: N ids, all in [0, N); coincident points share an id; every point is
\* within the tolerance of the representative of its id; and the grouping of
\* the points is the one the same points had in the previous input order.
C7_IdsWellFormed ==
  ipc = "done" =>
    /\ Len(unique_point3D_ids) = Len(points3D)
    /\ \A i \in 1..Len(points3D) :
         /\ unique_point3D_ids[i] \in 0..(Len(points3D) - 1)
         /\ IsApprox(SortedPoint(unique_point3D_ids[i]), points3D[i], PointPrecInv)
    /\ \A i, j \in 1..Len(points3D) :
         points3D[i] = points3D[j] => unique_point3D_ids[i] = unique_point3D_ids[j]
    /\ prev_ids # NoIds => SameGrouping(prev_ids, unique_point3D_ids)

\* Ids computed for a reordered list of three points in which two distinct
\* points were merged, two coincide, and one stayed apart.
C7_Witness ==
  /\ ipc = "done"
  /\ prev_ids # NoIds
  /\ Len(points3D) = 3
  /\ \E i, j \in 1..3 : /\ points3D[i] # points3D[j]
                         /\ unique_point3D_ids[i] = unique_point3D_ids[j]
  /\ \E i, j \in 1..3 : unique_point3D_ids[i] # unique_point3D_ids[j]
  /\ \E i, j \in 1..3 : i < j /\ LowerVector3d(points3D[j], points3D[i])

----------------------------------------------------------------------------
(* Specification SpecPano: IsPanoramicRig applied to bounded rigs *)

\* Camera poses of the model: optical centers (2,0,0), (3,0,0), (4,0,0) and
\* (-3,0,0), two of them behind a half-turn rotation.
RigPoses ==
  { Rigid3d(RotIdentity, <<-2, 0, 0>>),
    Rigid3d(RotIdentity, <<-3, 0, 0>>),
    Rigid3d(RotZ180, <<4, 0, 0>>),
    Rigid3d(RotZ180, <<-3, 0, 0>>) }

Rigs(n) == UNION {[1..k -> RigPoses] : k \in 1..n}

IdxLists(ncam, n) == UNION {[1..k -> 0..(ncam - 1)] : k \in 1..n}

Swap(n, i, j) == [k \in 1..n |-> IF k = i THEN j ELSE IF k = j THEN i ELSE k]

InitPano ==
  /\ \E rig \in Rigs(MaxCameras) :
       \E idxs \in IdxLists(Len(rig), MaxIdxs) :
         pano = [pc |-> "idle", camera_idxs |-> idxs, cams_from_rig |-> rig,
                 result |-> FALSE, prev |-> FALSE, change |-> "none"]
  /\ IdleIds
  /\ IdleEst
  /\ IdleRef

CallIsPanoramicRig ==
  /\ pano.pc = "idle"
  /\ pano' = [pano EXCEPT !.pc = "done",
                          !.result = IsPanoramicRig(pano.camera_idxs,
                                                    pano.cams_from_rig)]
  /\ UNCHANGED exceptPano

\* The same correspondences in another order.
ReorderCameraIdxs ==
  /\ pano.pc = "done"
  /\ \E i, j \in 1..Len(pano.camera_idxs) :
       /\ i < j
       /\ pano' = [pano EXCEPT
            !.pc = "idle",
            !.camera_idxs = [k \in 1..Len(pano.camera_idxs) |->
               pano.camera_idxs[Swap(Len(pano.camera_idxs), i, j)[k]]],
            !.prev = pano.result,
            !.change = "reorder"]
  /\ UNCHANGED exceptPano

\* A camera that no correspondence references gets another pose.
MoveUnreferencedCamera ==
  /\ pano.pc = "done"
  /\ \E c \in 0..(Len(pano.cams_from_rig) - 1) : \E pose \in RigPoses :
       /\ c \notin Range(pano.camera_idxs)
       /\ pose # At(pano.cams_from_rig, c)
       /\ pano' = [pano EXCEPT !.pc = "idle",
                               !.cams_from_rig[c + 1] = pose,
                               !.prev = pano.result,
                               !.change = "unreferenced"]
  /\ UNCHANGED exceptPano

\* The same rig and correspondences with two cameras exchanging their
\* indices, which can change the camera that carries the smallest index.
RelabelCameras ==
  /\ pano.pc = "done"
  /\ \E a, b \in 1..Len(pano.cams_from_rig) :
       /\ a < b
       /\ LET sw == Swap(Len(pano.cams_from_rig), a, b)
          IN pano' = [pano EXCEPT
               !.pc = "idle",
               !.cams_from_rig = [k \in 1..Len(pano.cams_from_rig) |->
                                    pano.cams_from_rig[sw[k]]],
               !.camera_idxs = [k \in 1..Len(pano.camera_idxs) |->
                                  sw[pano.camera_idxs[k] + 1] - 1],
               !.prev = pano.result,
               !.change = "relabel"]
  /\ UNCHANGED exceptPano

NextPano ==
  \/ CallIsPanoramicRig
  \/ ReorderCameraIdxs
  \/ MoveUnreferencedCamera
  \/ RelabelCameras

SpecPano == InitPano /\ [][NextPano]_vars

ReferencedOrigins(camera_idxs, cams_from_rig) ==
  {OriginInRig(At(cams_from_rig, i)) : i \in Range(camera_idxs)}

\* C5 as stated: the result is true whenever all referenced optical centers
\* are within the tolerance of some common point (here: of one of those
\* centers), and it is the same after reordering the indices, after
\* exchanging the indices of two cameras, and after moving an unreferenced
\* camera.
C5_CommonPoint ==
  pano.pc = "done" =>
    /\ (\E c \in ReferencedOrigins(pano.camera_idxs, pano.cams_from_rig) :
          \A o \in ReferencedOrigins(pano.camera_idxs, pano.cams_from_rig) :
            IsApprox(c, o, PanoPrecInv))
         => pano.result = TRUE
    /\ pano.change # "none" => pano.result = pano.prev

\* C5 amended: the result is true exactly when every referenced optical
\* center is within the tolerance of the center of the referenced camera with
\* the smallest index; it is the same after reordering the indices and after
\* moving an unreferenced camera.
C5_ReferenceCamera ==
  pano.pc = "done" =>
    /\ pano.result =
         (\A i \in Range(pano.camera_idxs) :
            IsApprox(OriginInRig(At(pano.cams_from_rig,
                                    SetMin(Range(pano.camera_idxs)))),
                     OriginInRig(At(pano.cams_from_rig, i)), PanoPrecInv))
    /\ pano.change \in {"reorder", "unreferenced"} => pano.result = pano.prev

\* Three referenced cameras, all within the tolerance of the middle one, and
\* the answer flipped when another of them took the smallest index.
C5_Witness ==
  /\ pano.pc = "done"
  /\ pano.change = "relabel"
  /\ Cardinality(Range(pano.camera_idxs)) = 3
  /\ \E c \in ReferencedOrigins(pano.camera_idxs, pano.cams_from_rig) :
       \A o \in ReferencedOrigins(pano.camera_idxs, pano.cams_from_rig) :
         IsApprox(c, o, PanoPrecInv)
  /\ pano.result # pano.prev

----------------------------------------------------------------------------
(* ThrowCheckCameras and the two estimators *)

\* The results a call can end with.  "crash" is a fault of the process.
Throw == "throw"

Crash == "crash"

\* ThrowCheckCameras: the set of ways it can end.  With an empty camera_idxs
\* std::minmax_element returns the end iterator twice and both are
\* dereferenced: the value read is arbitrary, so the checks pass ("ok") or
\* fail, or the read faults.
ThrowCheckCameras(camera_idxs, cams_from_rig, num_cameras) ==
  IF num_cameras = 0 THEN {Throw}
  ELSE IF Len(cams_from_rig) # num_cameras THEN {Throw}
  ELSE IF camera_idxs = <<>> THEN {"ok", Throw, Crash}
  ELSE IF SetMax(Range(camera_idxs)) >= num_cameras THEN {Throw}
  ELSE {"ok"}

\* Whether ThrowCheckCameras dereferences the end iterator of camera_idxs.
DerefsEnd(camera_idxs, cams_from_rig, num_cameras) ==
  /\ num_cameras # 0
  /\ Len(cams_from_rig) = num_cameras
  /\ camera_idxs = <<>>

Outcome(ret, path, reads) == [ret |-> ret, path |-> path, reads |-> reads]

\* The per-correspondence loops read camera_idxs[i] for i < num_points: past
\* the end of a shorter index vector the read is out of bounds, and the call
\* faults or goes on with an arbitrary index.
LoopOutcomes(path, num_points, idx_lens, reads) ==
  LET rd == reads \cup {"back_projection"}
  IN IF \E l \in idx_lens : l < num_points
     THEN {Outcome(Crash, path, rd \cup {"camera_idxs_past_end"})}
          \cup {Outcome(r, path, rd \cup {"camera_idxs_past_end"}) : r \in {"true", "false"}}
     ELSE {Outcome(r, path, rd) : r \in {"true", "false"}}

AbsOutcomes(a) ==
  IF a.num_points2D # a.num_points3D THEN {Outcome(Throw, "none", {})}
  ELSE IF a.num_points2D # Len(a.camera_idxs) THEN {Outcome(Throw, "none", {})}
  ELSE LET chk == ThrowCheckCameras(a.camera_idxs, a.cams_from_rig, a.num_cameras)
           reads == IF DerefsEnd(a.camera_idxs, a.cams_from_rig, a.num_cameras)
                    THEN {"camera_idxs_end"} ELSE {}
       IN {Outcome(c, "none", reads) : c \in chk \ {"ok"}}
          \cup
          (IF "ok" \notin chk THEN {}
           ELSE IF ~a.options_ok THEN {Outcome(Throw, "none", reads)}
           ELSE IF a.num_points2D = 0 THEN {Outcome("false", "none", reads)}
           ELSE LoopOutcomes("gp3p", a.num_points2D, {Len(a.camera_idxs)}, reads))

\* A mutant of BothPanoramic: the cameras of the two views are tested together.
AllPanoramic(camera_idxs1, camera_idxs2, cams_from_rig) ==
  IsPanoramicRig(camera_idxs1 \o camera_idxs2, cams_from_rig)

\* The condition of the dispatch, for non-empty index vectors.
BothPanoramic(camera_idxs1, camera_idxs2, cams_from_rig) ==
  /\ IsPanoramicRig(camera_idxs1, cams_from_rig)
  /\ IsPanoramicRig(camera_idxs2, cams_from_rig)

\* The branch taken at the dispatch.  IsPanoramicRig on an empty index
\* vector dereferences begin() of an empty set: it faults or answers
\* anything.  The second call is made only when the first answers true.
Dispatch(camera_idxs1, camera_idxs2, cams_from_rig) ==
  IF camera_idxs1 # <<>> /\ camera_idxs2 # <<>>
  THEN {IF BothPanoramic(camera_idxs1, camera_idxs2, cams_from_rig)
        THEN "pano" ELSE "rig"}
  ELSE IF camera_idxs1 # <<>> /\ ~IsPanoramicRig(camera_idxs1, cams_from_rig)
  THEN {"rig"}
  ELSE {"pano", "rig", Crash}

RelOutcomes(a) ==
  IF a.num_points2D1 # a.num_points2D2 THEN {Outcome(Throw, "none", {})}
  ELSE
    LET chk1 == ThrowCheckCameras(a.camera_idxs1, a.cams_from_rig, a.num_cameras)
        chk2 == ThrowCheckCameras(a.camera_idxs2, a.cams_from_rig, a.num_cameras)
        reads1 == IF DerefsEnd(a.camera_idxs1, a.cams_from_rig, a.num_cameras)
                  THEN {"camera_idxs_end"} ELSE {}
        reads2 == IF DerefsEnd(a.camera_idxs2, a.cams_from_rig, a.num_cameras)
                  THEN {"camera_idxs_end"} ELSE reads1
        num_points == a.num_points2D1
    IN {Outcome(c, "none", reads1) : c \in chk1 \ {"ok"}}
       \cup
       (IF "ok" \notin chk1 THEN {}
        ELSE {Outcome(c, "none", reads2) : c \in chk2 \ {"ok"}}
             \cup
             (IF "ok" \notin chk2 THEN {}
              ELSE IF ~a.options_ok THEN {Outcome(Throw, "none", reads2)}
              ELSE IF num_points = 0 THEN {Outcome("false", "none", reads2)}
              ELSE UNION {
                IF d = Crash
                THEN {Outcome(Crash, "none", reads2 \cup {"camera_idx_set_begin"})}
                ELSE LoopOutcomes(d, num_points,
                                  {Len(a.camera_idxs1), Len(a.camera_idxs2)},
                                  IF a.camera_idxs1 = <<>> \/ a.camera_idxs2 = <<>>
                                  THEN reads2 \cup {"camera_idx_set_begin"}
                                  ELSE reads2)
                : d \in Dispatch(a.camera_idxs1, a.camera_idxs2, a.cams_from_rig)}))

----------------------------------------------------------------------------
(* Specification SpecEst: calls of the two estimators on caller's outputs *)

\* Poses of the rigs: cameras A and B have optical centers (2,0,0) and
\* (3,0,0), within the tolerance of each other; camera C has (-3,0,0).
PoseA == Rigid3d(RotIdentity, <<-2, 0, 0>>)

PoseB == Rigid3d(RotZ180, <<3, 0, 0>>)

PoseC == Rigid3d(RotZ180, <<-3, 0, 0>>)

EstRigs == {<<>>, <<PoseA>>, <<PoseA, PoseB>>, <<PoseA, PoseC>>, <<PoseC, PoseA>>}

\* Camera indices offered to the calls: those of a two-camera rig and one
\* beyond it.
EstIdxLists == UNION {[1..k -> 0..2] : k \in 0..MaxCorr}

AbsArgs ==
  [num_points2D : 0..MaxCorr,
   num_points3D : 0..MaxCorr,
   camera_idxs : EstIdxLists,
   cams_from_rig : EstRigs,
   num_cameras : 0..2,
   options_ok : BOOLEAN]

RelArgs ==
  [num_points2D1 : 0..MaxCorr,
   num_points2D2 : 0..MaxCorr,
   camera_idxs1 : EstIdxLists,
   camera_idxs2 : EstIdxLists,
   cams_from_rig : EstRigs,
   num_cameras : 0..2,
   options_ok : BOOLEAN]

InitEst ==
  /\ IdleEst
  /\ IdleIds
  /\ IdlePano
  /\ IdleRef

\* EstimateGeneralizedAbsolutePose.  The rays, the unique point ids and the
\* averaged threshold only parametrize RANSAC::Estimate, whose report is
\* either outcome; what the call stores is named by the report's fields.
CallEstimateGeneralizedAbsolutePose ==
  /\ est.pc = "idle"
  /\ \E a \in AbsArgs : \E o \in AbsOutcomes(a) :
       IF o.ret = "true"
       THEN /\ est' = [pc |-> "returned", fn |-> "abs", args |-> a, ret |-> o.ret,
                       unset_before |-> (rig2_from_rig1 = NullOpt
                                         /\ pano2_from_pano1 = NullOpt),
                       path |-> o.path, reads |-> o.reads,
                       wrote |-> {"rig_from_world", "num_inliers", "inlier_mask"}]
            /\ rig_from_world' = "report.model"
            /\ num_inliers' = "report.support.num_unique_inliers"
            /\ inlier_mask' = "report.inlier_mask"
       ELSE /\ est' = [pc |-> "returned", fn |-> "abs", args |-> a, ret |-> o.ret,
                       unset_before |-> (rig2_from_rig1 = NullOpt
                                         /\ pano2_from_pano1 = NullOpt),
                       path |-> o.path, reads |-> o.reads, wrote |-> {}]
            /\ UNCHANGED <<rig_from_world, num_inliers, inlier_mask>>
  /\ UNCHANGED <<rig2_from_rig1, pano2_from_pano1>>
  /\ UNCHANGED exceptEst

\* EstimateGeneralizedRelativePose; the two branches end in
\* EstimateRelativePose and in LORANSAC::Estimate.
CallEstimateGeneralizedRelativePose ==
  /\ est.pc = "idle"
  /\ \E a \in RelArgs : \E o \in RelOutcomes(a) :
       IF o.ret = "true"
       THEN /\ est' = [pc |-> "returned", fn |-> "rel", args |-> a, ret |-> o.ret,
                       unset_before |-> (rig2_from_rig1 = NullOpt
                                         /\ pano2_from_pano1 = NullOpt),
                       path |-> o.path, reads |-> o.reads,
                       wrote |-> {IF o.path = "pano" THEN "pano2_from_pano1"
                                  ELSE "rig2_from_rig1",
                                  "num_inliers", "inlier_mask"}]
            /\ IF o.path = "pano"
               THEN /\ pano2_from_pano1' = "cam2_from_cam1"
                    /\ UNCHANGED rig2_from_rig1
               ELSE /\ rig2_from_rig1' = "report.model"
                    /\ UNCHANGED pano2_from_pano1
            /\ num_inliers' = "report.support.num_inliers"
            /\ inlier_mask' = "report.inlier_mask"
       ELSE /\ est' = [pc |-> "returned", fn |-> "rel", args |-> a, ret |-> o.ret,
                       unset_before |-> (rig2_from_rig1 = NullOpt
                                         /\ pano2_from_pano1 = NullOpt),
                       path |-> o.path, reads |-> o.reads, wrote |-> {}]
            /\ UNCHANGED <<rig2_from_rig1, pano2_from_pano1, num_inliers, inlier_mask>>
  /\ UNCHANGED rig_from_world
  /\ UNCHANGED exceptEst

\* The reads of a call whose behaviour is undefined.
UndefinedReads == {"camera_idxs_end", "camera_idx_set_begin", "camera_idxs_past_end"}

\* The caller goes on with the same output objects.  Nothing is modelled
\* after a call that faulted or whose behaviour was undefined.
CallerContinues ==
  /\ est.pc = "returned"
  /\ est.ret # Crash
  /\ est.reads \cap UndefinedReads = {}
  /\ est' = [pc |-> "idle"]
  /\ UNCHANGED outVars
  /\ UNCHANGED exceptEst

\* The caller declares new output objects.
CallerDeclaresOutputs ==
  /\ est.pc = "idle"
  /\ ~FreshOutputs
  /\ rig_from_world' = Uninit
  /\ rig2_from_rig1' = NullOpt
  /\ pano2_from_pano1' = NullOpt
  /\ num_inliers' = Uninit
  /\ inlier_mask' = Uninit
  /\ UNCHANGED est
  /\ UNCHANGED exceptEst

NextEst ==
  \/ CallEstimateGeneralizedAbsolutePose
  \/ CallEstimateGeneralizedRelativePose
  \/ CallerContinues
  \/ CallerDeclaresOutputs

SpecEst == InitEst /\ [][NextEst]_vars

\* The camera_idxs of a view hold one in-range index per correspondence.
ViewWellFormed(camera_idxs, num_points, num_cameras) ==
  /\ Len(camera_idxs) = num_points
  /\ \A i \in Range(camera_idxs) : i < num_cameras

\* Some structural precondition of EstimateGeneralizedRelativePose is broken.
RelPreconditionBroken(a) ==
  \/ a.num_points2D1 # Len(a.camera_idxs1)
  \/ a.num_points2D2 # Len(a.camera_idxs2)
  \/ a.num_points2D1 # a.num_points2D2
  \/ a.num_cameras = 0
  \/ Len(a.cams_from_rig) # a.num_cameras
  \/ \E i \in Range(a.camera_idxs1) \cup Range(a.camera_idxs2) : i >= a.num_cameras

\* C1: EstimateGeneralizedAbsolutePose with zero correspondences and a
\* non-empty camera list as long as cams_from_rig returns failure: nothing is
\* thrown, no element of an empty sequence is read, no output is written.
C1_EmptyAbsoluteReturnsFailure ==
  (/\ est.pc = "returned"
   /\ est.fn = "abs"
   /\ est.args.num_points2D = 0
   /\ est.args.num_points3D = 0
   /\ est.args.camera_idxs = <<>>
   /\ est.args.num_cameras > 0
   /\ Len(est.args.cams_from_rig) = est.args.num_cameras
   /\ est.args.options_ok)
    => /\ est.ret = "false"
       /\ est.reads = {}
       /\ est.wrote = {}

\* C2: EstimateGeneralizedRelativePose with a broken structural precondition
\* throws before any back-projection, panoramic detection or read of a
\* camera index past the end of its sequence.
C2_BrokenPreconditionThrows ==
  (/\ est.pc = "returned"
   /\ est.fn = "rel"
   /\ RelPreconditionBroken(est.args))
    => /\ est.ret = Throw
       /\ est.reads \cap {"back_projection", "camera_idx_set_begin",
                          "camera_idxs_past_end"} = {}

\* C3: after every call of EstimateGeneralizedRelativePose, on reused outputs
\* too: on success exactly one of the two poses holds a value; on failure
\* neither does and num_inliers and inlier_mask are not written (checked on
\* the calls whose behaviour is defined).
C3_ExactlyOnePose ==
  (est.pc = "returned" /\ est.fn = "rel" /\ est.reads \cap UndefinedReads = {}) =>
    /\ est.ret = "true" =>
         (rig2_from_rig1 # NullOpt) # (pano2_from_pano1 # NullOpt)
    /\ est.ret = "false" =>
         /\ rig2_from_rig1 = NullOpt
         /\ pano2_from_pano1 = NullOpt
         /\ est.wrote \cap {"num_inliers", "inlier_mask"} = {}

ReferencedBoth(a) == Range(a.camera_idxs1) \cup Range(a.camera_idxs2)

RelSucceeded ==
  /\ est.pc = "returned"
  /\ est.fn = "rel"
  /\ est.ret = "true"
  /\ ViewWellFormed(est.args.camera_idxs1, est.args.num_points2D1, est.args.num_cameras)
  /\ ViewWellFormed(est.args.camera_idxs2, est.args.num_points2D2, est.args.num_cameras)

\* C4 as stated: on success, if all cameras referenced by the two views share
\* one optical center then pano2_from_pano1 is set and rig2_from_rig1 is
\* unset, and if two of them have separated centers then rig2_from_rig1 is
\* set and pano2_from_pano1 is unset (checked on the calls that were given
\* two unset poses).
C4_RigGeometryDecides ==
  (RelSucceeded /\ est.unset_before) =>
    LET O(i) == OriginInRig(At(est.args.cams_from_rig, i))
        shared == \A i, j \in ReferencedBoth(est.args) :
                    IsApprox(O(i), O(j), PanoPrecInv)
    IN /\ shared => pano2_from_pano1 # NullOpt /\ rig2_from_rig1 = NullOpt
       /\ ~shared => rig2_from_rig1 # NullOpt /\ pano2_from_pano1 = NullOpt

\* The cameras a view references all have their optical center within the
\* tolerance of that of the referenced camera with the smallest index.
ViewPanoramic(camera_idxs, cams_from_rig) ==
  \A i \in Range(camera_idxs) :
    IsApprox(OriginInRig(At(cams_from_rig, SetMin(Range(camera_idxs)))),
             OriginInRig(At(cams_from_rig, i)), PanoPrecInv)

\* C4 amended: the two views are tested separately.  On success, if each
\* view by itself is panoramic the call stores pano2_from_pano1 and does not
\* write rig2_from_rig1, also when the cameras of the two views are
\* separated from each other; if one of the views is not panoramic the call
\* stores rig2_from_rig1 and does not write pano2_from_pano1.
C4_EachViewDecides ==
  RelSucceeded =>
    IF /\ ViewPanoramic(est.args.camera_idxs1, est.args.cams_from_rig)
       /\ ViewPanoramic(est.args.camera_idxs2, est.args.cams_from_rig)
    THEN /\ est.wrote = {"pano2_from_pano1", "num_inliers", "inlier_mask"}
         /\ pano2_from_pano1 = "cam2_from_cam1"
         /\ est.unset_before => rig2_from_rig1 = NullOpt
    ELSE /\ est.wrote = {"rig2_from_rig1", "num_inliers", "inlier_mask"}
         /\ rig2_from_rig1 = "report.model"
         /\ est.unset_before => pano2_from_pano1 = NullOpt

\* A successful call in which each view references a single camera, the two
\* cameras are separated, and the panoramic pose alone was stored.
C4_Witness ==
  /\ RelSucceeded
  /\ Cardinality(Range(est.args.camera_idxs1)) = 1
  /\ Cardinality(Range(est.args.camera_idxs2)) = 1
  /\ \E i \in Range(est.args.camera_idxs1) : \E j \in Range(est.args.camera_idxs2) :
       ~IsApprox(OriginInRig(At(est.args.cams_from_rig, i)),
                 OriginInRig(At(est.args.cams_from_rig, j)), PanoPrecInv)
  /\ pano2_from_pano1 = "cam2_from_cam1"
  /\ rig2_from_rig1 = NullOpt

----------------------------------------------------------------------------
(* RefineGeneralizedAbsolutePose *)

\* Camera models: SIMPLE_PINHOLE (f, cx, cy) and SIMPLE_RADIAL (f, cx, cy, k).
CameraModels == {"SIMPLE_PINHOLE", "SIMPLE_RADIAL"}

NumParams(model_id) == IF model_id = "SIMPLE_PINHOLE" THEN 3 ELSE 4

FocalLengthIdxs(model_id) == {0}

PrincipalPointIdxs(model_id) == {1, 2}

ExtraParamsIdxs(model_id) == IF model_id = "SIMPLE_PINHOLE" THEN {} ELSE {3}

\* A camera as the caller holds it: every parameter has its value 0; a
\* parameter the solver moved has another value, 1.
Camera(model_id) == [model_id |-> model_id, params |-> [e \in 1..NumParams(model_id) |-> 0]]

\* A mutant of InlierIdxs: the inlier mask is not consulted.
AllIdxs(mask) == 0..(Len(mask) - 1)

\* The correspondences the residual loop does not skip.
InlierIdxs(mask) == {i \in 0..(Len(mask) - 1) : At(mask, i)}

CameraCount(a, c) == Cardinality({i \in InlierIdxs(a.inlier_mask) : At(a.camera_idxs, i) = c})

\* A mutant of CameraParamsConst: the principal point is not fixed.
CameraParamsConstNoPrincipalPoint(model_id, refine_focal_length, refine_extra_params) ==
  (IF ~refine_focal_length THEN FocalLengthIdxs(model_id) ELSE {})
    \cup (IF ~refine_extra_params THEN ExtraParamsIdxs(model_id) ELSE {})

\* camera_params_const, the indices the subset manifold holds fixed.
CameraParamsConst(model_id, refine_focal_length, refine_extra_params) ==
  PrincipalPointIdxs(model_id)
    \cup (IF ~refine_focal_length THEN FocalLengthIdxs(model_id) ELSE {})
    \cup (IF ~refine_extra_params THEN ExtraParamsIdxs(model_id) ELSE {})

\* Whether the camera's parameters are made constant as a whole block.
WholeBlockConstant(model_id, refine_focal_length, refine_extra_params) ==
  IF ~refine_focal_length /\ ~refine_extra_params THEN TRUE
  ELSE Cardinality(CameraParamsConst(model_id, refine_focal_length, refine_extra_params))
         = NumParams(model_id)

\* The 3D-point blocks made constant in the residual loop.
PointBlocksConstant(a) == {<<"points3D_copy", i>> : i \in InlierIdxs(a.inlier_mask)}

\* The ceres::Problem after construction: the residual blocks (one per
\* inlier), the parameter blocks they name, the blocks set constant, the
\* entries a subset manifold fixes, and the quaternion manifold.
BuildProblem(a, cameras) ==
  LET inl == InlierIdxs(a.inlier_mask)
      used == {c \in 0..(Len(cameras) - 1) : CameraCount(a, c) > 0}
      blocks ==
        UNION {{<<"cams_from_rig_copy.rotation", At(a.camera_idxs, i)>>,
                <<"cams_from_rig_copy.translation", At(a.camera_idxs, i)>>,
                <<"rig_from_world.rotation", 0>>,
                <<"rig_from_world.translation", 0>>,
                <<"points3D_copy", i>>,
                <<"camera.params", At(a.camera_idxs, i)>>} : i \in inl}
      whole == {c \in used :
                  WholeBlockConstant(At(cameras, c).model_id,
                                     a.refine_focal_length, a.refine_extra_params)}
  IN IF inl = {}
     THEN [residuals |-> {}, blocks |-> {}, constant |-> {},
           subset |-> {}, quaternion_manifold |-> FALSE]
     ELSE [residuals |-> inl,
           blocks |-> blocks,
           constant |->
             PointBlocksConstant(a)
               \cup {<<"cams_from_rig_copy.rotation", c>> : c \in used}
               \cup {<<"cams_from_rig_copy.translation", c>> : c \in used}
               \cup {<<"camera.params", c>> : c \in whole},
           subset |->
             UNION {{<<c, e>> : e \in CameraParamsConst(At(cameras, c).model_id,
                                   a.refine_focal_length, a.refine_extra_params)}
                    : c \in used \ whole},
           quaternion_manifold |-> TRUE]

\* What ceres::Solve may move: every entry of a non-constant block of the
\* problem that no subset manifold fixes.
FreeCameraEntries(prob, cameras) ==
  {ce \in {<<c, e>> : c \in 0..(Len(cameras) - 1), e \in 0..3} :
     /\ <<"camera.params", ce[1]>> \in prob.blocks \ prob.constant
     /\ ce[2] < NumParams(At(cameras, ce[1]).model_id)
     /\ ce \notin prob.subset}

FreeOtherBlocks(prob) ==
  {b \in prob.blocks \ prob.constant : b[1] # "camera.params"}

\* A mutant of RefineReturn: a failed covariance does not fail the call.
RefineReturnIgnoringCovariance(usable, cov) == IF usable THEN "true" ELSE "false"

\* The value returned, from summary.IsSolutionUsable() and the covariance
\* step ("not_attempted", "computed" or "failed").
RefineReturn(usable, cov) ==
  IF cov = "failed" THEN "false" ELSE IF usable THEN "true" ELSE "false"

\* The checks at the head of the function: the set of ways they can end.
\* With an empty camera_idxs, min_element and max_element return the end
\* iterator, which is dereferenced.
RefineChecks(a, c) ==
  IF a.num_points2D # Len(a.inlier_mask) THEN {Throw}
  ELSE IF a.num_points2D # Len(c.points3D) THEN {Throw}
  ELSE IF a.num_points2D # Len(a.camera_idxs) THEN {Throw}
  ELSE IF Len(c.cams_from_rig) # Len(c.cameras) THEN {Throw}
  ELSE IF a.camera_idxs = <<>>
       THEN {Throw, Crash} \cup (IF a.options_ok THEN {"ok"} ELSE {})
  ELSE IF SetMax(Range(a.camera_idxs)) >= Len(c.cameras) THEN {Throw}
  ELSE IF ~a.options_ok THEN {Throw}
  ELSE {"ok"}

----------------------------------------------------------------------------
(* Specification SpecRef: one call of RefineGeneralizedAbsolutePose *)

RefArgs ==
  [inlier_mask : SeqsUpTo(BOOLEAN, MaxCorr),
   num_points2D : 0..MaxCorr,
   camera_idxs : EstIdxLists,
   refine_focal_length : BOOLEAN,
   refine_extra_params : BOOLEAN,
   options_ok : BOOLEAN,
   has_cov : BOOLEAN]

InitRef ==
  /\ \E cams \in SeqsUpTo({Camera(m) : m \in CameraModels}, MaxRigCameras) :
     \E ncfr \in {Len(cams), (Len(cams) + 1) % (MaxRigCameras + 1)} :
     \E npts \in 0..MaxCorr :
       caller = [cameras |-> cams,
                 cams_from_rig |-> [k \in 1..ncfr |-> PoseA],
                 points3D |-> [k \in 1..npts |-> <<2, 0, 0>>],
                 rig_from_world |-> [rotation |-> "estimate", translation |-> "estimate"],
                 rig_from_world_cov |-> Uninit]
  /\ ref = [pc |-> "idle"]
  /\ IdleIds
  /\ IdlePano
  /\ IdleEst

\* The calls of the model break at most one of the conditions the function
\* checks on the sizes of its arguments and on its options.
BrokenConditions(a, c) ==
  {k \in 1..5 :
     \/ k = 1 /\ Len(a.inlier_mask) # a.num_points2D
     \/ k = 2 /\ Len(c.points3D) # a.num_points2D
     \/ k = 3 /\ Len(a.camera_idxs) # a.num_points2D
     \/ k = 4 /\ Len(c.cams_from_rig) # Len(c.cameras)
     \/ k = 5 /\ ~a.options_ok}

CallRefineGeneralizedAbsolutePose ==
  /\ ref.pc = "idle"
  /\ \E a \in RefArgs : \E chk \in RefineChecks(a, caller) :
       /\ Cardinality(BrokenConditions(a, caller)) <= 1
       /\ IF chk # "ok"
          THEN /\ ref' = [pc |-> "returned", args |-> a, before |-> caller, ret |-> chk,
                          solver_ran |-> FALSE]
               /\ UNCHANGED caller
          ELSE LET prob == BuildProblem(a, caller.cameras)
               IN \E moved \in SUBSET FreeCameraEntries(prob, caller.cameras) :
                  \E others \in SUBSET FreeOtherBlocks(prob) :
                  \E usable \in BOOLEAN :
                  \E cov \in (IF prob.residuals # {} /\ a.has_cov
                              THEN {"computed", "failed"} ELSE {"not_attempted"}) :
                    LET solved ==
                          [caller EXCEPT
                             !.cameras = [k \in 1..Len(caller.cameras) |->
                                [caller.cameras[k] EXCEPT
                                   !.params = [e \in 1..Len(caller.cameras[k].params) |->
                                      IF <<k - 1, e - 1>> \in moved THEN 1 ELSE @[e]]]],
                             !.rig_from_world =
                                [rotation |->
                                   IF <<"rig_from_world.rotation", 0>> \in others
                                   THEN "refined" ELSE @.rotation,
                                 translation |->
                                   IF <<"rig_from_world.translation", 0>> \in others
                                   THEN "refined" ELSE @.translation]]
                    IN /\ ref' = [pc |-> "returned", args |-> a, before |-> caller,
                                  ret |-> RefineReturn(usable, cov),
                                  solver_ran |-> TRUE, problem |-> prob,
                                  copies_moved |-> {b \in others : b[1] \notin
                                     {"rig_from_world.rotation", "rig_from_world.translation"}},
                                  solved |-> solved, usable |-> usable, cov |-> cov]
                       /\ caller' = IF cov = "computed"
                                    THEN [solved EXCEPT !.rig_from_world_cov = "covariance"]
                                    ELSE solved
  /\ UNCHANGED exceptRef

NextRef == CallRefineGeneralizedAbsolutePose

SpecRef == InitRef /\ [][NextRef]_vars

\* The correspondences whose mask entry is true, and the cameras they name.
MaskedIn(a) == {i \in 0..(Len(a.inlier_mask) - 1) : At(a.inlier_mask, i)}

InlierCameras(a) == {At(a.camera_idxs, i) : i \in MaskedIn(a)}

ParamsSameAt(k, idxs) ==
  \A e \in idxs : At(caller.cameras[k].params, e) = At(ref.before.cameras[k].params, e)

\* C8: with both refine flags false every camera's parameter vector is the
\* same after the call as before; with a flag set the principal-point
\* entries are the same, the focal-length entries unless refine_focal_length,
\* the extra entries unless refine_extra_params; and a camera of the problem
\* whose fixed entries are its whole vector is constant as a block, with no
\* subset manifold.
C8_IntrinsicsHeldFixed ==
  ref.pc = "returned" =>
    /\ Len(caller.cameras) = Len(ref.before.cameras)
    /\ \A k \in 1..Len(caller.cameras) :
         LET m == caller.cameras[k].model_id
             fixed == PrincipalPointIdxs(m)
                        \cup (IF ref.args.refine_focal_length THEN {} ELSE FocalLengthIdxs(m))
                        \cup (IF ref.args.refine_extra_params THEN {} ELSE ExtraParamsIdxs(m))
         IN /\ m = ref.before.cameras[k].model_id
            /\ (~ref.args.refine_focal_length /\ ~ref.args.refine_extra_params)
                 => caller.cameras[k].params = ref.before.cameras[k].params
            /\ ParamsSameAt(k, fixed)
            /\ (ref.solver_ran /\ (k - 1) \in InlierCameras(ref.args)
                  /\ fixed = 0..(NumParams(m) - 1))
                 => /\ <<"camera.params", k - 1>> \in ref.problem.constant
                    /\ \A e \in 0..(NumParams(m) - 1) : <<k - 1, e>> \notin ref.problem.subset

\* Only extra parameters are refined: a SIMPLE_PINHOLE camera of the problem
\* is constant as a block, and the extra parameter of a SIMPLE_RADIAL camera
\* moved while its other entries stayed.
C8_Witness ==
  /\ ref.pc = "returned"
  /\ ref.ret = "true"
  /\ ref.args.refine_extra_params
  /\ ~ref.args.refine_focal_length
  /\ \E k \in 1..Len(caller.cameras) :
       /\ caller.cameras[k].model_id = "SIMPLE_PINHOLE"
       /\ <<"camera.params", k - 1>> \in ref.problem.constant
  /\ \E k \in 1..Len(caller.cameras) :
       /\ caller.cameras[k].model_id = "SIMPLE_RADIAL"
       /\ caller.cameras[k].params = <<0, 0, 0, 1>>

C10_FrameOfRefinement ==
  ref.pc = "returned" =>
    /\ caller.cams_from_rig = ref.before.cams_from_rig
    /\ caller.points3D = ref.before.points3D
    /\ ~ref.solver_ran => caller = ref.before
    /\ ref.solver_ran =>
         /\ \A k \in 1..Len(caller.cameras) :
              (k - 1) \notin InlierCameras(ref.args) =>
                /\ caller.cameras[k] = ref.before.cameras[k]
                /\ <<"camera.params", k - 1>> \notin ref.problem.blocks
         /\ ref.problem.residuals = MaskedIn(ref.args)
         /\ \A b \in ref.problem.blocks :
              b[1] \in {"cams_from_rig_copy.rotation", "cams_from_rig_copy.translation",
                        "points3D_copy"} => b \in ref.problem.constant
         /\ ref.copies_moved = {}

\* Two correspondences on two cameras, one of them masked out: the camera of
\* the inlier moved, the camera of the outlier is not in the problem.
C10_Witness ==
  /\ ref.pc = "returned"
  /\ ref.ret = "true"
  /\ Len(ref.args.camera_idxs) = 2
  /\ Cardinality(MaskedIn(ref.args)) = 1
  /\ Cardinality(Range(ref.args.camera_idxs)) = 2
  /\ \E k \in 1..Len(caller.cameras) :
       /\ (k - 1) \in InlierCameras(ref.args)
       /\ caller.cameras[k] # ref.before.cameras[k]
  /\ \E k \in 1..Len(caller.cameras) :
       /\ (k - 1) \in Range(ref.args.camera_idxs) \ InlierCameras(ref.args)
       /\ <<"camera.params", k - 1>> \notin ref.problem.blocks

====
